---- MODULE Spec2Model ----
(***************************************************************************)
(* A model of the syllabus analysis pipeline of src/analysis/analyze.py    *)
(* and of the rubric schema of src/analysis/models.py.                     *)
(*                                                                         *)
(* Strings are sequences of one-character strings, so that the string      *)
(* functions of the code (replace, upper, ljust, split, the two regular    *)
(* expressions) are computed and not assumed.                              *)
(***************************************************************************)
EXTENDS Integers, Sequences, FiniteSets, TLC

VARIABLES
    nIn,        \* normalizer scenario: the raw identifier
    nOut,       \* normalizer scenario: normalize(nIn)
    nOut2,      \* normalizer scenario: normalize(normalize(nIn))
    nPc         \* normalizer scenario: "in", "once", "twice"

normVars == <<nIn, nOut, nOut2, nPc>>

VARIABLES
    vIn,        \* validator scenario: the parsed response (json.loads result)
    vEdits,     \* validator scenario: how vIn differs from a conforming response
    vOut,       \* validator scenario: what validation returned or raised
    vPc         \* validator scenario: "in", "validated"

valVars == <<vIn, vEdits, vOut, vPc>>

VARIABLES
    dir,        \* the file names present in SYLLABI_DIR
    store,      \* RESULTS_DIR: department code -> the result file <dept>.json
    pc,         \* where the process is: "idle", "next", "loop", "save", "write", "raised"
    scope,      \* the operation that is running or has completed, none after one that did not
    ended,      \* how it ended: "none", "running", "completed", "failed", "interrupted"
    jobs,       \* the department runs the operation still has to make
    out,        \* _analyze_files: the department of output_path
    files,      \* _analyze_files: files
    idx,        \* _analyze_files: position of the for loop in files
    results,    \* _analyze_files: results
    done,       \* _analyze_files: done
    matching,   \* analyze_program: matching_files
    loaded,     \* history: the source files of results as loaded by _analyze_files
    log,        \* history: the files this _analyze_files call submitted, each with the outcome
    calls,      \* history: service calls per file since the operation started
    resumed,    \* history: the operation repeats the one before it, which completed
    store0      \* history: the result files as they were when a resumed operation started

runVars == <<pc, scope, ended, jobs, out, files, idx, results, done, matching,
             loaded, log, calls, resumed, store0>>

orchVars == <<dir, store, runVars>>

VARIABLES
    mCourses,   \* report scenario: the course list of the program in programs.json
    mProgram,   \* report scenario: the program name find_missing_syllabi is called with
    report,     \* report scenario: the report file data/missing/<slug>.json
    mOut,       \* report scenario: what find_missing_syllabi returned
    mPc         \* report scenario: "in", "reported"

missVars == <<mCourses, mProgram, report, mOut, mPc>>

VARIABLES
    fBody,      \* fence scenario: the body the service was to return
    fText,      \* fence scenario: the text the service returned
    fPlain,     \* fence scenario: what analyze_syllabus makes of the body alone
    fOut,       \* fence scenario: what analyze_syllabus makes of fText
    fPc         \* fence scenario: "in", "plain", "fenced"

fenceVars == <<fBody, fText, fPlain, fOut, fPc>>

vars == <<normVars, valVars, orchVars, missVars, fenceVars>>

\* The values of a scenario's variables in the specifications that do not run it
NormIdle == nIn = <<>> /\ nOut = <<>> /\ nOut2 = <<>> /\ nPc = "off"

ValIdle == vIn = [t |-> "null"] /\ vEdits = <<>> /\ vOut = [t |-> "null"] /\ vPc = "off"

MissIdle ==
    /\ mCourses = <<>> /\ mProgram = "" /\ mPc = "off"
    /\ report = [ exists |-> FALSE ] /\ mOut = [ none |-> TRUE, missing |-> <<>> ]

FenceIdle == fBody = <<>> /\ fText = <<>> /\ fPlain = [t |-> "null"] /\ fOut = [t |-> "null"] /\ fPc = "off"

(***************************************************************************)
(* Characters                                                              *)
(***************************************************************************)

LowerCase == <<"a","b","c","d","e","f","g","h","i","j","k","l","m",
               "n","o","p","q","r","s","t","u","v","w","x","y","z">>

UpperCase == <<"A","B","C","D","E","F","G","H","I","J","K","L","M",
               "N","O","P","Q","R","S","T","U","V","W","X","Y","Z">>

Digits == <<"0","1","2","3","4","5","6","7","8","9">>

\* The characters of the model in ascending code point order
\* (newline 10, space 32, '-' 45, '.' 46, digits, upper case, '_' 95, lower case).
AsciiOrder == <<"\n", " ", "-", ".">> \o Digits \o UpperCase \o <<"_">> \o LowerCase

Range(s) == { s[i] : i \in 1..Len(s) }

IndexOf(s, c) == CHOOSE i \in 1..Len(s) : s[i] = c

Ord(c) == IndexOf(AsciiOrder, c)

IsUpperLetter(c) == c \in Range(UpperCase)

IsDigit(c) == c \in Range(Digits)

\* str.upper() on one character
UpperChar(c) == IF c \in Range(LowerCase) THEN UpperCase[IndexOf(LowerCase, c)] ELSE c

\* str.lower() on one character
LowerChar(c) == IF c \in Range(UpperCase) THEN LowerCase[IndexOf(UpperCase, c)] ELSE c

Upper(s) == [ i \in 1..Len(s) |-> UpperChar(s[i]) ]

Lower(s) == [ i \in 1..Len(s) |-> LowerChar(s[i]) ]

\* str.replace(c, "")
RECURSIVE Remove(_, _)
Remove(s, c) ==
    IF s = <<>> THEN <<>>
    ELSE IF Head(s) = c THEN Remove(Tail(s), c)
    ELSE <<Head(s)>> \o Remove(Tail(s), c)

\* n copies of character c
Repeat(c, n) == [ i \in 1..n |-> c ]

\* str.ljust(width, fill): pads on the right, never truncates
LJust(s, width, fill) ==
    IF Len(s) >= width THEN s ELSE s \o Repeat(fill, width - Len(s))

\* Length of the longest prefix of s whose characters all satisfy the test
\* (the test is given as the set of characters it accepts).
RECURSIVE PrefixRun(_, _)
PrefixRun(s, chars) ==
    IF s = <<>> \/ Head(s) \notin chars THEN 0
    ELSE 1 + PrefixRun(Tail(s), chars)

\* s < t in the order of str comparison (code points, shorter prefix first)
RECURSIVE StrLess(_, _)
StrLess(s, t) ==
    IF t = <<>> THEN FALSE
    ELSE IF s = <<>> THEN TRUE
    ELSE IF Head(s) = Head(t) THEN StrLess(Tail(s), Tail(t))
    ELSE Ord(Head(s)) < Ord(Head(t))

(***************************************************************************)
(* Identifier normalizer                                                   *)
(***************************************************************************)

PadWidth == 5

\* code = course.replace(" ", "").upper()
StripUpper(course) == Upper(Remove(course, " "))

\* re.match(r"^([A-Z]+)(\d+)$", code): the lengths <<letters, digits>> of the
\* two groups, or <<0, 0>> when there is no match.  '$' also matches just
\* before one trailing newline.
CourseMatch(code) ==
    LET nl == PrefixRun(code, Range(UpperCase))
        rest == SubSeq(code, nl + 1, Len(code))
        nd == PrefixRun(rest, Range(Digits))
        tail == SubSeq(rest, nd + 1, Len(rest))
    IN  IF nl >= 1 /\ nd >= 1 /\ (tail = <<>> \/ tail = <<"\n">>)
        THEN <<nl, nd>> ELSE <<0, 0>>

\* A plausible slip: the number is padded on the left (rjust / zfill).
NormalizePadLeft(course) ==
    LET code == StripUpper(course)
        m == CourseMatch(code)
        num == SubSeq(code, m[1] + 1, m[1] + m[2])
    IN  IF m = <<0, 0>> THEN code
        ELSE SubSeq(code, 1, m[1])
             \o (IF Len(num) >= PadWidth THEN num
                 ELSE Repeat("0", PadWidth - Len(num)) \o num)

\* A plausible slip: two zeros are always appended ("201" -> "20100").
NormalizeAppendTwo(course) ==
    LET code == StripUpper(course)
        m == CourseMatch(code)
    IN  IF m = <<0, 0>> THEN code
        ELSE SubSeq(code, 1, m[1]) \o SubSeq(code, m[1] + 1, m[1] + m[2]) \o <<"0", "0">>

_normalize_course_code(course) ==
    LET code == StripUpper(course)
        m == CourseMatch(code)
        dept == SubSeq(code, 1, m[1])
        num == SubSeq(code, m[1] + 1, m[1] + m[2])
    IN  IF m = <<0, 0>> THEN code
        ELSE dept \o LJust(num, PadWidth, "0")

(***************************************************************************)
(* JSON values, as json.loads returns them: every value carries its type,  *)
(* an object is a function from its keys to values.                        *)
(***************************************************************************)

JNull == [t |-> "null"]

JInt(i) == [t |-> "int", i |-> i]

JStr(s) == [t |-> "str", s |-> s]

JObj(f) == [t |-> "obj", o |-> f]

\* What a lookup of an absent key gives
JMissing == [t |-> "missing"]

EmptyObj == [k \in {} |-> JNull]

Has(v, k) == v.t = "obj" /\ k \in DOMAIN v.o

\* The value at a path of keys, JMissing when a key on the way is absent
RECURSIVE Get(_, _)
Get(v, path) ==
    IF path = <<>> THEN v
    ELSE IF Has(v, Head(path)) THEN Get(v.o[Head(path)], Tail(path))
    ELSE JMissing

(***************************************************************************)
(* The rubric schema (models.py)                                           *)
(***************************************************************************)

Pillars ==
    { "interdisciplinary_academics", "undergraduate_research",
      "community_and_global_engagement", "leadership_development" }

Rigor == { "advanced_content", "sustained_inquiry", "independent_or_collaborative_work" }

StudentAgencyAndResponsibility ==
    { "student_defined_projects", "consequential_decision_making",
      "extended_analytical_commitment" }

DemonstrableEvidenceOfLearning ==
    { "major_project", "portfolio_or_capstone", "public_facing_outcome",
      "sustained_assessment" }

Exclusions ==
    { "lower_division_introductory", "broad_introductory_coverage",
      "skills_only_or_tool_training", "lacks_major_deliverable", "already_counted" }

\* The section fields of CourseAnalysis, each with the criteria of its model
SectionFields ==
    [ pillars |-> Pillars,
      rigor |-> Rigor,
      student_agency_and_responsibility |-> StudentAgencyAndResponsibility,
      demonstrable_evidence_of_learning |-> DemonstrableEvidenceOfLearning,
      exclusions |-> Exclusions ]

Sections == DOMAIN SectionFields

Decisions == { "approved", "not_approved", "deferred" }

Scores == { 0, 1 }

\* The fields of CourseInformation: str | None, default None
InfoFields == { "course_number", "course_title", "department", "college", "review_date" }

\* A plausible slip: score declared int instead of Literal[0, 1].
ScoredCriterionAnyInt(v) ==
    /\ Has(v, "score") /\ v.o["score"].t = "int"
    /\ Has(v, "rationale") /\ v.o["rationale"].t = "str"

\* ScoredCriterion: score is 0 or 1, rationale is a string, both required
ScoredCriterion(v) ==
    /\ Has(v, "score") /\ v.o["score"].t = "int" /\ v.o["score"].i \in Scores
    /\ Has(v, "rationale") /\ v.o["rationale"].t = "str"

\* A section model: every criterion required, each a ScoredCriterion
Section(v, criteria) ==
    /\ v.t = "obj"
    /\ \A c \in criteria : Has(v, c) /\ ScoredCriterion(v.o[c])

\* A plausible slip: review_decision declared optional (ReviewDecision | None = None).
ReviewDecisionOptional(v) ==
    v.t = "missing"
    \/ /\ Has(v, "decision") /\ v.o["decision"].t = "str" /\ v.o["decision"].s \in Decisions
       /\ Has(v, "rationale") /\ v.o["rationale"].t = "str"

\* ReviewDecision (v is JMissing when the field is absent)
ReviewDecision(v) ==
    /\ Has(v, "decision") /\ v.o["decision"].t = "str" /\ v.o["decision"].s \in Decisions
    /\ Has(v, "rationale") /\ v.o["rationale"].t = "str"

CourseInformation(v) ==
    /\ v.t = "obj"
    /\ \A k \in InfoFields : Has(v, k) => v.o[k].t \in { "str", "null" }

CourseAnalysis(v) ==
    /\ v.t = "obj"
    /\ \A sec \in Sections : Has(v, sec) /\ Section(v.o[sec], SectionFields[sec])
    /\ ReviewDecision(Get(v, <<"review_decision">>))

\* SyllabusReview.model_validate(raw) succeeds
SyllabusReview(raw) ==
    /\ Has(raw, "course_information") /\ CourseInformation(raw.o["course_information"])
    /\ Has(raw, "course_analysis") /\ CourseAnalysis(raw.o["course_analysis"])

\* model_dump() of the models: the declared fields only, defaults filled in
DumpCriterion(v) == JObj([ k \in { "score", "rationale" } |-> v.o[k] ])

DumpSection(v, criteria) == JObj([ c \in criteria |-> DumpCriterion(v.o[c]) ])

DumpDecision(v) ==
    IF v.t = "missing" THEN JNull
    ELSE JObj([ k \in { "decision", "rationale" } |-> v.o[k] ])

DumpInformation(v) == JObj([ k \in InfoFields |-> IF Has(v, k) THEN v.o[k] ELSE JNull ])

DumpAnalysis(v) ==
    JObj([ k \in Sections \cup { "review_decision" } |->
             IF k = "review_decision" THEN DumpDecision(Get(v, <<k>>))
             ELSE DumpSection(v.o[k], SectionFields[k]) ])

model_dump(raw) ==
    [ k \in { "course_information", "course_analysis" } |->
        IF k = "course_information" THEN DumpInformation(raw.o[k])
        ELSE DumpAnalysis(raw.o[k]) ]

\* SyllabusReview.model_validate(raw): the validated review, or the
\* pydantic ValidationError raised
model_validate(raw) ==
    IF SyllabusReview(raw)
    THEN [ ok |-> TRUE, value |-> model_dump(raw) ]
    ELSE [ ok |-> FALSE, error |-> "ValidationError" ]

(***************************************************************************)
(* Responses: a conforming response, and responses that differ from one    *)
(***************************************************************************)

\* A response that conforms to the schema: every criterion scored s, decision d
Conforming(s, d) ==
    LET crit == JObj([ k \in { "score", "rationale" } |->
                         IF k = "score" THEN JInt(s) ELSE JStr("because") ])
        dec == JObj([ k \in { "decision", "rationale" } |->
                        IF k = "decision" THEN JStr(d) ELSE JStr("because") ])
        analysis == JObj([ k \in Sections \cup { "review_decision" } |->
                             IF k = "review_decision" THEN dec
                             ELSE JObj([ c \in SectionFields[k] |-> crit ]) ])
        info == JObj([ k \in InfoFields |-> JStr("text") ])
    IN  JObj([ k \in { "course_information", "course_analysis" } |->
                 IF k = "course_information" THEN info ELSE analysis ])

\* v with the value at path replaced by new, the key added when it is absent
\* and removed when new is JMissing; v is left alone when the parent of the
\* path is not an object of v.
RECURSIVE Edit(_, _, _)
Edit(v, path, new) ==
    LET k == Head(path) IN
    IF v.t # "obj" THEN v
    ELSE IF Len(path) = 1
    THEN IF new.t = "missing"
         THEN JObj([ x \in DOMAIN v.o \ { k } |-> v.o[x] ])
         ELSE JObj([ x \in DOMAIN v.o \cup { k } |-> IF x = k THEN new ELSE v.o[x] ])
    ELSE IF Has(v, k)
    THEN JObj([ x \in DOMAIN v.o |-> IF x = k THEN Edit(v.o[x], Tail(path), new) ELSE v.o[x] ])
    ELSE v

(***************************************************************************)
(* Files of the syllabi directory and the catalogue of programs             *)
(***************************************************************************)

\* The file names that may be present in SYLLABI_DIR.  A name is kept as a
\* string; Chars gives its characters.
FileUniverse ==
    { "AB20100_a.pdf", "AB20100_b.docx", "AB201_a.PDF", "CD10100_a.pdf", "cd10100_b.docx", "notes.txt" }

Chars(n) ==
    CASE
       n = "AB20100_a.pdf" -> <<"A","B","2","0","1","0","0","_","a",".","p","d","f">>
    [] n = "AB20100_b.docx" -> <<"A","B","2","0","1","0","0","_","b",".","d","o","c","x">>
    [] n = "AB201_a.PDF" -> <<"A","B","2","0","1","_","a",".","P","D","F">>
    [] n = "CD10100_a.pdf" -> <<"C","D","1","0","1","0","0","_","a",".","p","d","f">>
    [] n = "cd10100_b.docx" -> <<"c","d","1","0","1","0","0","_","b",".","d","o","c","x">>
    [] n = "notes.txt"   -> <<"n","o","t","e","s",".","t","x","t">>

\* programs.json: program name -> list of raw course identifiers
Programs ==
    [ Honors |-> << <<"A","B"," ","2","0","1">>,
                  <<"c","d"," ","1","0","1","0","0">>,
                  <<"X","Y"," ","9","9","9">> >> ]

SUPPORTED_EXTENSIONS == { <<".","p","d","f">>, <<".","d","o","c","x">> }

\* The index of the last c in s, 0 when there is none
LastIndex(s, c) ==
    IF c \in Range(s) THEN CHOOSE i \in 1..Len(s) : s[i] = c /\ \A j \in (i + 1)..Len(s) : s[j] # c
    ELSE 0

\* The index of the first c in s, Len(s) + 1 when there is none
FirstIndex(s, c) ==
    IF c \in Range(s) THEN CHOOSE i \in 1..Len(s) : s[i] = c /\ \A j \in 1..(i - 1) : s[j] # c
    ELSE Len(s) + 1

\* Path.suffix: the last dot of the name and what follows it; empty when the
\* name has no dot or only a leading one
Suffix(name) ==
    LET i == LastIndex(name, ".") IN
    IF i <= 1 THEN <<>> ELSE SubSeq(name, i, Len(name))

\* Path.stem: the name without its suffix
Stem(name) == SubSeq(name, 1, Len(name) - Len(Suffix(name)))

\* f.suffix.lower() in SUPPORTED_EXTENSIONS
Supported(n) == Lower(Suffix(Chars(n))) \in SUPPORTED_EXTENSIONS

\* f.stem.split("_")[0].upper()
CourseCodeOf(n) ==
    LET stem == Stem(Chars(n)) IN Upper(SubSeq(stem, 1, FirstIndex(stem, "_") - 1))

\* None, the result of _extract_department when the name has no such prefix
NoDept == <<>>

\* _DEPT_RE = ^([A-Z]+)\d matched at the start of the file name
_extract_department(name) ==
    LET n == PrefixRun(name, Range(UpperCase)) IN
    IF n >= 1 /\ n < Len(name) /\ IsDigit(name[n + 1]) THEN SubSeq(name, 1, n) ELSE NoDept

DeptOf(n) == _extract_department(Chars(n))

\* A plausible slip: the files are taken in descending order.
RECURSIVE SortedDescending(_)
SortedDescending(S) ==
    IF S = {} THEN <<>>
    ELSE LET greatest == CHOOSE a \in S : \A b \in S \ { a } : StrLess(Chars(b), Chars(a))
         IN  <<greatest>> \o SortedDescending(S \ { greatest })

\* sorted(): the names of a set in ascending order
RECURSIVE Sorted(_)
Sorted(S) ==
    IF S = {} THEN <<>>
    ELSE LET least == CHOOSE a \in S : \A b \in S \ { a } : StrLess(Chars(a), Chars(b))
         IN  <<least>> \o Sorted(S \ { least })

\* sorted() of a set of department codes
RECURSIVE SortedCodes(_)
SortedCodes(S) ==
    IF S = {} THEN <<>>
    ELSE LET least == CHOOSE a \in S : \A b \in S \ { a } : StrLess(a, b)
         IN  <<least>> \o SortedCodes(S \ { least })

\* The elements of a sequence that are in a set, in the order of the sequence
RECURSIVE Filter(_, _)
Filter(s, S) ==
    IF s = <<>> THEN <<>>
    ELSE (IF Head(s) \in S THEN <<Head(s)>> ELSE <<>>) \o Filter(Tail(s), S)

\* analyze_department: the sorted supported files of a department
DepartmentFiles(d, listing) == Sorted({ n \in listing : Supported(n) /\ DeptOf(n) = d })

\* A plausible repair of course_prefixes: the padded identifiers.
CoursePrefixesPadded(p) == { _normalize_course_code(Programs[p][i]) : i \in 1..Len(Programs[p]) }

\* analyze_program: course_prefixes
CoursePrefixes(p) == { StripUpper(Programs[p][i]) : i \in 1..Len(Programs[p]) }

\* analyze_program: matching_files
MatchingFiles(p, listing) ==
    Filter(Sorted({ n \in listing : Supported(n) }),
           { n \in listing : CourseCodeOf(n) \in CoursePrefixes(p) })

\* analyze_program: the departments of dept_files in sorted order (files
\* without a department are left out)
ProgramDepartments(matched) == SortedCodes({ DeptOf(n) : n \in Range(matched) } \ { NoDept })

\* analyze_all(None): the departments found in the directory
AllDepartments(listing) ==
    SortedCodes({ DeptOf(n) : n \in { m \in listing : Supported(m) } } \ { NoDept })

\* find_missing_syllabi: syllabi_codes
SyllabiCodes(listing) == { CourseCodeOf(n) : n \in { m \in listing : Supported(m) } }

(***************************************************************************)
(* The judgment service and the per-item pipeline (analyze_syllabus)       *)
(***************************************************************************)

\* What a call of the service can come to: the call raises, the text it
\* returns is not JSON, or the text parses to a JSON value (one that
\* conforms to the schema and carries an unknown field, one with a score 2).
ServiceOutcomes ==
    << [ raw |-> JNull, kind |-> "raise" ],
       [ raw |-> JNull, kind |-> "text" ],
       [ raw |-> Edit(Conforming(1, "approved"), <<"notes">>, JStr("extra")), kind |-> "json" ],
       [ raw |-> Edit(Conforming(0, "deferred"),
                      <<"course_analysis", "rigor", "advanced_content", "score">>, JInt(2)),
         kind |-> "json" ] >>

\* analyze_syllabus: the validated review, or the exception raised
analyze_syllabus(o) ==
    IF o.kind = "raise" THEN [ ok |-> FALSE, error |-> "APIError" ]
    ELSE IF o.kind = "text" THEN [ ok |-> FALSE, error |-> "JSONDecodeError" ]
    ELSE model_validate(o.raw)

(***************************************************************************)
(* Result store and batch orchestrator (_analyze_files and its callers)    *)
(***************************************************************************)

MaxFiles == 3

\* The files that may be in the directory besides notes.txt
Syllabi == FileUniverse \ { "notes.txt" }

DeptKeys == { DeptOf(n) : n \in FileUniverse } \ { NoDept }

ProgramNames == DOMAIN Programs

\* A result file that is not there
NoFile == [ exists |-> FALSE, torn |-> FALSE, recs |-> <<>> ]

\* A result file holding the whole JSON text of the array of records
FileOf(rs) == [ exists |-> TRUE, torn |-> FALSE, recs |-> rs ]

\* A result file that write_text has opened, and so emptied, and not yet
\* closed: it holds a proper prefix of the new text, possibly nothing.  No
\* proper prefix of the text of a JSON array is JSON, and the program reads
\* a result file only through json.loads, so the prefix is not kept.
TornFile == [ exists |-> TRUE, torn |-> TRUE, recs |-> <<>> ]

SourceOf(rec) == rec["_source_file"].s

IsError(rec) == "_error" \in DOMAIN rec

\* The source files of a list of records, in order
Sources(rs) == [ i \in 1..Len(rs) |-> SourceOf(rs[i]) ]

\* done as the key of the last record only
DoneKeysLast(rs) == IF rs = <<>> THEN {} ELSE { SourceOf(rs[Len(rs)]) }

\* done as it would be if a program run kept a resume state of its own
DoneKeysOwnScope(rs) ==
    IF scope.kind = "program" THEN {} ELSE { SourceOf(rs[i]) : i \in 1..Len(rs) }

\* A plausible slip: done is left empty when the result file is loaded.
DoneKeysEmpty(rs) == {}

\* A plausible slip: error records are not counted as done.
DoneKeysRubricOnly(rs) == { SourceOf(rec) : rec \in { x \in Range(rs) : ~IsError(x) } }

\* done = {r["_source_file"] for r in results}
DoneKeys(rs) == { SourceOf(rs[i]) : i \in 1..Len(rs) }

\* result = review.model_dump(); result["_source_file"] = rel
RubricRecord(review, rel) ==
    [ k \in DOMAIN review \cup { "_source_file" } |->
        IF k = "_source_file" THEN JStr(rel) ELSE review[k] ]

\* {"_source_file": rel, "_error": str(e)}
ErrorRecord(rel, msg) ==
    [ k \in { "_source_file", "_error" } |-> IF k = "_source_file" THEN JStr(rel) ELSE JStr(msg) ]

\* A plausible slip: a failed item is logged and nothing is appended.
AppendItemDropFailure(rs, rel, r) ==
    IF r.ok THEN Append(rs, RubricRecord(r.value, rel)) ELSE rs

\* The try/except of the item loop: results.append(...)
AppendItem(rs, rel, r) ==
    IF r.ok THEN Append(rs, RubricRecord(r.value, rel))
    ELSE Append(rs, ErrorRecord(rel, r.error))

NoScope == [ kind |-> "none" ]

DepartmentScope(d) == [ dept |-> d, kind |-> "department" ]

ProgramScope(p) == [ kind |-> "program", program |-> p ]

AllScope == [ kind |-> "all" ]

\* A department run still to make: analyze_department lists the files of
\* the department itself, analyze_program hands over the files it grouped.
DepartmentJob(d) == [ files |-> <<>>, dept |-> d, listed |-> FALSE ]

\* the department run of a program run handed every matched file
ProgramJobUngrouped(d, matched) == [ files |-> matched, dept |-> d, listed |-> TRUE ]

ProgramJob(d, matched) ==
    [ files |-> Filter(matched, { n \in FileUniverse : DeptOf(n) = d }), dept |-> d, listed |-> TRUE ]

NoCalls == [ n \in FileUniverse |-> 0 ]

NoStores == [ d \in DeptKeys |-> NoFile ]

\* The locals of _analyze_files when it is not running
NoLocals ==
    /\ out' = NoDept /\ files' = <<>> /\ idx' = 0 /\ results' = <<>> /\ done' = {}
    /\ loaded' = <<>> /\ log' = <<>>

\* The history of an operation that is over
NoHistory ==
    /\ matching' = <<>> /\ calls' = NoCalls /\ resumed' = FALSE
    /\ store0' = NoStores

OrchIdle ==
    /\ dir = {} /\ store = NoStores /\ pc = "off" /\ scope = NoScope /\ ended = "none"
    /\ jobs = <<>> /\ out = NoDept /\ files = <<>> /\ idx = 0 /\ results = <<>> /\ done = {}
    /\ matching = <<>> /\ loaded = <<>> /\ log = <<>> /\ calls = NoCalls
    /\ resumed = FALSE /\ store0 = NoStores

\* A directory with notes.txt and at most MaxFiles syllabi, no result file
Init ==
    /\ dir \in { S \cup { "notes.txt" } : S \in { T \in SUBSET Syllabi : Cardinality(T) <= MaxFiles } }
    /\ store = NoStores /\ pc = "idle" /\ scope = NoScope /\ ended = "none"
    /\ jobs = <<>> /\ out = NoDept /\ files = <<>> /\ idx = 0 /\ results = <<>> /\ done = {}
    /\ matching = <<>> /\ loaded = <<>> /\ log = <<>> /\ calls = NoCalls
    /\ resumed = FALSE /\ store0 = NoStores
    /\ NormIdle /\ ValIdle /\ MissIdle /\ FenceIdle

\* An operation is invoked, with the department runs it is to make
Start(s, js, matched) ==
    /\ pc = "idle"
    /\ scope' = s
    /\ matching' = matched
    /\ resumed' = (ended = "completed" /\ scope = s)
    /\ store0' = IF ended = "completed" /\ scope = s THEN store ELSE NoStores
    /\ calls' = NoCalls
    /\ jobs' = js
    /\ pc' = "next"
    /\ ended' = "running"
    /\ NoLocals
    /\ UNCHANGED <<dir, store, normVars, valVars, missVars, fenceVars>>

\* analyze_all([d]) / analyze_department(client, d)
AnalyzeDepartment(d) == Start(DepartmentScope(d), <<DepartmentJob(d)>>, <<>>)

\* analyze_all(None)
AnalyzeAll ==
    LET ds == AllDepartments(dir) IN
    Start(AllScope, [ i \in 1..Len(ds) |-> DepartmentJob(ds[i]) ], <<>>)

\* analyze_program(p), p a program of programs.json
AnalyzeProgram(p) ==
    LET matched == MatchingFiles(p, dir)
        ds == ProgramDepartments(matched)
    IN  Start(ProgramScope(p), [ i \in 1..Len(ds) |-> ProgramJob(ds[i], matched) ], matched)

\* The files of the department run at the head of jobs
JobFiles == IF Head(jobs).listed THEN Head(jobs).files ELSE DepartmentFiles(Head(jobs).dept, dir)

\* analyze_department finds no supported file of the department: return []
NoDepartmentFiles ==
    /\ pc = "next" /\ jobs # <<>> /\ JobFiles = <<>>
    /\ jobs' = Tail(jobs)
    /\ UNCHANGED <<dir, store, pc, scope, ended, out, files, idx, results, done, matching,
                   loaded, log, calls, resumed, store0, normVars, valVars, missVars, fenceVars>>

\* _analyze_files, lines 118-123: the result file is there and json.loads
\* raises on it; nothing catches the exception
LoadFails ==
    /\ pc = "next" /\ jobs # <<>> /\ JobFiles # <<>>
    /\ store[Head(jobs).dept].exists /\ store[Head(jobs).dept].torn
    /\ pc' = "raised"
    /\ UNCHANGED <<dir, store, scope, ended, jobs, out, files, idx, results, done, matching,
                   loaded, log, calls, resumed, store0, normVars, valVars, missVars, fenceVars>>

\* _analyze_files, line 119: the result file is there and read_text raises an
\* OSError (permission denied, I/O error); nothing catches the exception and
\* the process ends
LoadIOFails ==
    /\ pc = "next" /\ jobs # <<>> /\ JobFiles # <<>>
    /\ store[Head(jobs).dept].exists
    /\ pc' = "idle" /\ ended' = "failed" /\ jobs' = <<>>
    /\ NoLocals
    /\ NoHistory
    /\ scope' = NoScope
    /\ UNCHANGED <<dir, store, normVars, valVars, missVars, fenceVars>>

\* _analyze_files, lines 118-123: load the existing results, or start empty
Load ==
    /\ pc = "next" /\ jobs # <<>> /\ JobFiles # <<>>
    /\ ~(store[Head(jobs).dept].exists /\ store[Head(jobs).dept].torn)
    /\ out' = Head(jobs).dept
    /\ files' = JobFiles
    /\ idx' = 1
    /\ results' = store[Head(jobs).dept].recs
    /\ done' = DoneKeys(store[Head(jobs).dept].recs)
    /\ loaded' = Sources(store[Head(jobs).dept].recs)
    /\ log' = <<>>
    /\ jobs' = Tail(jobs)
    /\ pc' = "loop"
    /\ UNCHANGED <<dir, store, scope, ended, matching, calls, resumed, store0,
                   normVars, valVars, missVars, fenceVars>>

\* lines 127-129: the file is in done
Skip ==
    /\ pc = "loop" /\ idx <= Len(files) /\ files[idx] \in done
    /\ idx' = idx + 1
    /\ UNCHANGED <<dir, store, pc, scope, ended, jobs, out, files, results, done, matching,
                   loaded, log, calls, resumed, store0, normVars, valVars, missVars, fenceVars>>

\* lines 130-138: the file is submitted and a record is appended to results
Analyze ==
    /\ pc = "loop" /\ idx <= Len(files) /\ files[idx] \notin done
    /\ \E o \in DOMAIN ServiceOutcomes :
         /\ results' = AppendItem(results, files[idx], analyze_syllabus(ServiceOutcomes[o]))
         /\ log' = Append(log, [ file |-> files[idx], outcome |-> o ])
    /\ calls' = [ calls EXCEPT ![files[idx]] = @ + 1 ]
    /\ pc' = "save"
    /\ UNCHANGED <<dir, store, scope, ended, jobs, out, files, idx, done, matching,
                   loaded, resumed, store0, normVars, valVars, missVars, fenceVars>>

\* _save_results, write_text: the file is opened for writing, which empties it
SaveOpen ==
    /\ pc = "save"
    /\ store' = [ store EXCEPT ![out] = TornFile ]
    /\ pc' = "write"
    /\ UNCHANGED <<dir, scope, ended, jobs, out, files, idx, results, done, matching,
                   loaded, log, calls, resumed, store0, normVars, valVars, missVars, fenceVars>>

\* _save_results, write_text: the whole text is written and the file closed;
\* the for loop goes on to the next file
SaveClose ==
    /\ pc = "write"
    /\ store' = [ store EXCEPT ![out] = FileOf(results) ]
    /\ idx' = idx + 1
    /\ pc' = "loop"
    /\ UNCHANGED <<dir, scope, ended, jobs, out, files, results, done, matching,
                   loaded, log, calls, resumed, store0, normVars, valVars, missVars, fenceVars>>

\* A plausible slip: _save_results is called inside the try, so that its
\* OSError becomes an error record and the loop goes on.
SaveFailsCaught ==
    /\ pc \in { "save", "write" }
    /\ results' = Append(results, ErrorRecord(files[idx], "OSError"))
    /\ idx' = idx + 1
    /\ pc' = "loop"
    /\ UNCHANGED <<dir, store, scope, ended, jobs, out, files, done, matching,
                   loaded, log, calls, resumed, store0, normVars, valVars, missVars, fenceVars>>

\* _save_results, write_text raises an OSError: opening the file fails and
\* the file is as it was (permission denied), or writing fails after the
\* file was emptied (disk full).  Line 139 is outside the try: nothing
\* catches the exception and the process ends.
SaveFails ==
    /\ pc \in { "save", "write" }
    /\ pc' = "idle" /\ ended' = "failed" /\ jobs' = <<>>
    /\ NoLocals
    /\ NoHistory
    /\ scope' = NoScope
    /\ UNCHANGED <<dir, store, normVars, valVars, missVars, fenceVars>>

\* line 141: return results, back in the caller
Return ==
    /\ pc = "loop" /\ idx > Len(files)
    /\ pc' = "next"
    /\ NoLocals
    /\ UNCHANGED <<dir, store, scope, ended, jobs, matching, calls, resumed,
                   store0, normVars, valVars, missVars, fenceVars>>

\* The operation has made all its department runs and returns
Finish ==
    /\ pc = "next" /\ jobs = <<>>
    /\ pc' = "idle" /\ ended' = "completed"
    /\ NoHistory
    /\ UNCHANGED <<dir, store, scope, jobs, out, files, idx, results, done, loaded, log,
                   normVars, valVars, missVars, fenceVars>>

\* The exception of LoadFails ends the process
Exit ==
    /\ pc = "raised"
    /\ pc' = "idle" /\ ended' = "failed" /\ jobs' = <<>>
    /\ NoLocals
    /\ NoHistory
    /\ scope' = NoScope
    /\ UNCHANGED <<dir, store, normVars, valVars, missVars, fenceVars>>

\* The process is interrupted (killed, Ctrl-C): what it held in memory is gone
Interrupt ==
    /\ pc \in { "next", "loop", "save", "write" }
    /\ pc' = "idle" /\ ended' = "interrupted" /\ jobs' = <<>>
    /\ NoLocals
    /\ NoHistory
    /\ scope' = NoScope
    /\ UNCHANGED <<dir, store, normVars, valVars, missVars, fenceVars>>

\* The operator removes a result file between two operations
RemoveStore(d) ==
    /\ pc = "idle" /\ store[d].exists
    /\ store' = [ store EXCEPT ![d] = NoFile ]
    /\ ended' = "none"
    /\ UNCHANGED <<dir, pc, scope, jobs, out, files, idx, results, done, matching,
                   loaded, log, calls, resumed, store0, normVars, valVars, missVars, fenceVars>>

Next ==
    \/ \E d \in DeptKeys : AnalyzeDepartment(d)
    \/ AnalyzeAll
    \/ \E p \in ProgramNames : AnalyzeProgram(p)
    \/ NoDepartmentFiles
    \/ LoadFails
    \/ LoadIOFails
    \/ Load
    \/ Skip
    \/ Analyze
    \/ SaveOpen
    \/ SaveClose
    \/ SaveFails
    \/ Return
    \/ Finish
    \/ Exit
    \/ Interrupt
    \/ \E d \in DeptKeys : RemoveStore(d)

Spec == Init /\ [][Next]_vars

(***************************************************************************)
(* The validator applied to a parsed response                              *)
(***************************************************************************)

RECURSIVE EditAll(_, _)
EditAll(v, edits) ==
    IF edits = <<>> THEN v
    ELSE EditAll(Edit(v, Head(edits).path, Head(edits).new), Tail(edits))

SectionPaths == { <<"course_analysis", sec>> : sec \in Sections }

CriterionPaths ==
    UNION { { <<"course_analysis", sec, c>> : c \in SectionFields[sec] } : sec \in Sections }

DecisionPath == <<"course_analysis", "review_decision">>

\* Every path of the schema that holds a required value
RequiredPaths ==
    { <<"course_information">>, <<"course_analysis">>, DecisionPath,
      DecisionPath \o <<"decision">>, DecisionPath \o <<"rationale">> }
    \cup SectionPaths \cup CriterionPaths
    \cup { p \o <<"score">> : p \in CriterionPaths }
    \cup { p \o <<"rationale">> : p \in CriterionPaths }

\* Every path of the schema that holds an object
ObjectPaths ==
    { <<"course_information">>, <<"course_analysis">>, DecisionPath }
    \cup SectionPaths \cup CriterionPaths

\* The required paths that hold a score, a decision or a rationale
RequiredLeafPaths == RequiredPaths \ ObjectPaths

\* Edits that break the schema: a required field removed, a score that is
\* not the integer 0 or 1, a decision that is not one of the three literals,
\* an object replaced by null.
BreakingEdits ==
    { [ path |-> p, new |-> JMissing ] : p \in RequiredPaths }
    \cup { [ path |-> p \o <<"score">>, new |-> x ] :
             p \in CriterionPaths, x \in { JInt(2), JInt(-1), JStr("1"), JNull } }
    \cup { [ path |-> DecisionPath \o <<"decision">>, new |-> x ] :
             x \in { JStr("maybe"), JStr("Approved"), JNull, JInt(1) } }
    \cup { [ path |-> p, new |-> JNull ] : p \in ObjectPaths }

\* Edits that add a field the schema does not know, at the top level or
\* inside an object of the schema
ExtraEdits ==
    { [ path |-> <<"notes">>, new |-> JStr("extra") ] }
    \cup { [ path |-> p \o <<"confidence">>, new |-> JInt(7) ] : p \in ObjectPaths }

\* Edits that keep the response conforming: an optional field removed or
\* null, another score or decision of the schema
KeepingEdits ==
    { [ path |-> <<"course_information", k>>, new |-> x ] :
        k \in InfoFields, x \in { JMissing, JNull } }
    \cup { [ path |-> p \o <<"score">>, new |-> JInt(x) ] : p \in CriterionPaths, x \in Scores }
    \cup { [ path |-> DecisionPath \o <<"decision">>, new |-> JStr(d) ] : d \in Decisions }

EditLists ==
    { <<>> }
    \cup { <<e>> : e \in BreakingEdits \cup ExtraEdits \cup KeepingEdits }
    \cup { <<x, e>> : x \in ExtraEdits, e \in BreakingEdits \cup KeepingEdits }

Bases == { Conforming(0, "approved"), Conforming(1, "not_approved"), Conforming(1, "deferred") }

ValInit ==
    /\ vEdits \in EditLists
    /\ vIn \in { EditAll(b, vEdits) : b \in Bases }
    /\ vOut = JNull
    /\ vPc = "in"
    /\ NormIdle /\ OrchIdle /\ MissIdle /\ FenceIdle

Validate ==
    /\ vPc = "in"
    /\ vOut' = model_validate(vIn)
    /\ vPc' = "validated"
    /\ UNCHANGED <<vIn, vEdits, normVars, orchVars, missVars, fenceVars>>

ValNext == Validate

SpecValidate == ValInit /\ [][ValNext]_vars

\* The defects the schema is to reject: a missing section, a missing
\* criterion, a score other than the integers 0 and 1, a missing
\* review_decision, a decision other than the three literals.
Defective(v) ==
    \/ \E p \in SectionPaths \cup CriterionPaths \cup { DecisionPath } : Get(v, p).t = "missing"
    \/ \E p \in CriterionPaths : Get(v, p \o <<"score">>) \notin { JInt(x) : x \in Scores }
    \/ Get(v, DecisionPath \o <<"decision">>) \notin { JStr(d) : d \in Decisions }

\* C6: validation is strict.  A response with one of the defects is
\* rejected; a response whose only differences from a conforming one are
\* unknown extra fields (or absent optional course_information fields) is
\* accepted; and an accepted review holds, at every required path, the value
\* the response holds there, so no required field was filled in by default.
C6_Strict ==
    vPc = "validated" =>
        /\ Defective(vIn) => ~vOut.ok
        /\ (\A i \in 1..Len(vEdits) : vEdits[i] \notin BreakingEdits) => vOut.ok
        /\ vOut.ok => \A p \in RequiredLeafPaths : Get(JObj(vOut.value), p) = Get(vIn, p)

\* C6 witness: a response that lacks review_decision and carries an unknown
\* field has been rejected.
C6_Witness ==
    /\ vPc = "validated"
    /\ Get(vIn, DecisionPath).t = "missing"
    /\ Get(vIn, <<"notes">>) = JStr("extra")
    /\ ~vOut.ok

(***************************************************************************)
(* The normalizer applied to a raw identifier, then to its own result      *)
(***************************************************************************)

MaxLen == 3
MaxLetters == 2
MaxDigits == 6

NormAlphabet == {" ", "a", "B", "1", "-", "\n"}

\* All strings over a set of characters with lo..hi characters
StringsOver(chars, lo, hi) == UNION { [1..n -> chars] : n \in lo..hi }

\* Identifiers of the expected shape: letters, an optional space, digits,
\* an optional trailing newline.
ShapedInputs ==
    { l \o sp \o d \o nl :
        l \in StringsOver({"a", "B"}, 1, MaxLetters),
        sp \in {<<>>, <<" ">>},
        d \in StringsOver({"0", "7"}, 1, MaxDigits),
        nl \in {<<>>, <<"\n">>} }

\* The identifiers of the docstring of _normalize_course_code and of the
\* catalogue: "ABE 201", "ABE20100", "POL 10100", "cs18000".
ExampleInputs ==
    { <<"A","B","E"," ","2","0","1">>,
      <<"A","B","E","2","0","1","0","0">>,
      <<"P","O","L"," ","1","0","1","0","0">>,
      <<"c","s","1","8","0","0","0">> }

NormInputs == StringsOver(NormAlphabet, 0, MaxLen) \cup ShapedInputs \cup ExampleInputs

NormInit ==
    /\ nIn \in NormInputs /\ nOut = <<>> /\ nOut2 = <<>> /\ nPc = "in"
    /\ ValIdle /\ OrchIdle /\ MissIdle /\ FenceIdle

NormApply ==
    /\ nPc = "in"
    /\ nOut' = _normalize_course_code(nIn)
    /\ nPc' = "once"
    /\ UNCHANGED <<nIn, nOut2, valVars, orchVars, missVars, fenceVars>>

NormReapply ==
    /\ nPc = "once"
    /\ nOut2' = _normalize_course_code(nOut)
    /\ nPc' = "twice"
    /\ UNCHANGED <<nIn, nOut, valVars, orchVars, missVars, fenceVars>>

NormNext == NormApply \/ NormReapply

SpecNorm == NormInit /\ [][NormNext]_vars

\* The space-stripped, uppercased form of s is a run of n >= 1 letters
\* followed by a run of >= 1 digits.
IsLettersDigits(s, n) ==
    /\ n \in 1..(Len(s) - 1)
    /\ \A i \in 1..n : IsUpperLetter(s[i])
    /\ \A i \in (n + 1)..Len(s) : IsDigit(s[i])

\* C8: the normalizer is idempotent: normalize(normalize(x)) = normalize(x).
C8_Idempotent == nPc = "twice" => nOut2 = nOut

\* C8 witness: an identifier that the normalizer changed (stripped, uppercased
\* and padded) has been normalized twice.
C8_Witness ==
    /\ nPc = "twice"
    /\ nIn = <<"a", " ", "7">>
    /\ nOut = <<"A", "7", "0", "0", "0", "0">>

\* C9 as claimed: whenever the stripped, uppercased input is letters then
\* digits, of any length, the result is the letters followed by exactly
\* PadWidth characters: the digits, right-padded with '0'.
C9_ExactlyFive ==
    nPc # "in" =>
        \A n \in 1..Len(nIn) :
            LET code == StripUpper(nIn) IN
            IsLettersDigits(code, n) =>
                /\ Len(nOut) = n + PadWidth
                /\ SubSeq(nOut, 1, n) = SubSeq(code, 1, n)
                /\ \A i \in 1..PadWidth :
                      nOut[n + i] = IF n + i <= Len(code) THEN code[n + i] ELSE "0"

\* C9 amended: letters then at most PadWidth digits give the letters followed
\* by exactly PadWidth characters, the digits right-padded with '0'; letters
\* then more than PadWidth digits are returned as they are (stripped and
\* uppercased), nothing is cut.  "ABE 201" and "ABE20100" give "ABE20100".
C9_PadToFive ==
    nPc # "in" =>
        /\ \A n \in 1..Len(nIn) :
              LET code == StripUpper(nIn) IN
              IsLettersDigits(code, n) =>
                  IF Len(code) - n <= PadWidth
                  THEN /\ Len(nOut) = n + PadWidth
                       /\ SubSeq(nOut, 1, n) = SubSeq(code, 1, n)
                       /\ \A i \in 1..PadWidth :
                             nOut[n + i] = IF n + i <= Len(code) THEN code[n + i] ELSE "0"
                  ELSE nOut = code
        /\ nIn \in { <<"A","B","E"," ","2","0","1">>, <<"A","B","E","2","0","1","0","0">> }
              => nOut = <<"A","B","E","2","0","1","0","0">>

\* C9 witness: "ABE 201" has been normalized to "ABE20100", and so has an
\* identifier with a digit run longer than PadWidth been normalized.
C9_Witness ==
    /\ nPc = "once"
    /\ nIn = <<"A","B","E"," ","2","0","1">>
    /\ nOut = <<"A","B","E","2","0","1","0","0">>

(***************************************************************************)
(* Properties of the batch orchestrator and the result store               *)
(***************************************************************************)

\* The files of the current department run that had no record when the
\* result file was loaded, in the order of the run
Todo == Filter(files, FileUniverse \ Range(loaded))

\* The department run is inside _analyze_files
InRun == pc \in { "loop", "save", "write" }

\* The for loop of _analyze_files has gone through all its files
LoopDone == pc = "loop" /\ idx > Len(files)

\* C1: resume idempotence.  In a run of a scope that follows a completed run
\* of the same scope, with the directory unchanged and no result file
\* removed, no file is submitted to the service, no record is appended to
\* the loaded results, nothing is written, and every result file stays what
\* it was when the run began.
C1_ResumeIdempotent ==
    resumed =>
        /\ \A n \in FileUniverse : calls[n] = 0
        /\ pc \notin { "save", "write", "raised" }
        /\ InRun => log = <<>> /\ Len(results) = Len(loaded)
        /\ store = store0

\* C1 witness: the second run of a scope has gone through all its
\* department runs, over a result file of at least two records of which one
\* is an error record.
C1_Witness ==
    /\ resumed /\ pc = "next" /\ jobs = <<>>
    /\ \E d \in DeptKeys :
         /\ Len(store[d].recs) >= 2
         /\ \E i \in 1..Len(store[d].recs) : IsError(store[d].recs[i])

\* What holds of every department run that could load its result file: it
\* submits only files that had no record when the file was loaded, and, for
\* a scope that covers whole departments, it ends with exactly one record
\* per discovered file, no source file twice, all of them on disk.
RecoversLoaded ==
    /\ InRun =>
         /\ \A n \in Range(loaded) : calls[n] = 0
         /\ \A i \in 1..Len(log) : log[i].file \notin Range(loaded)
    /\ (LoopDone /\ scope.kind \in { "department", "all" }) =>
         /\ Len(results) = Len(files)
         /\ DoneKeys(results) = Range(files)
         /\ store[out] = FileOf(results)

\* C2: crash recovery.  A run that is started after an interrupted run finds
\* every result file it is to load as the interrupted run persisted it, a
\* complete sequence of records, and every run that has loaded its result
\* file submits only the files that have no record and ends with exactly
\* one record per discovered file and no duplicate.
C2_CrashRecovery ==
    [][ /\ RecoversLoaded
        /\ (pc = "idle" /\ ended = "interrupted" /\ pc' = "next") =>
             \A i \in 1..Len(jobs') : ~store[jobs'[i].dept].torn ]_vars

\* C3: persisting is atomic with respect to interruption.  After an
\* interruption every result file on disk is a complete sequence of records,
\* the one loaded extended by the records appended since, so that no run
\* fails to load a result file.
C3_AtomicPersist ==
    /\ ended = "interrupted" => \A d \in DeptKeys : ~store[d].torn
    /\ pc # "raised"

\* C4: partial-failure isolation.  In a department run the records appended
\* so far are, in order, one per file of Todo: a rubric record holding the
\* validated review when the pipeline succeeded on the file, an error
\* record holding the message of the exception when the service call, the
\* parsing or the validation failed; and when the loop is through, every
\* file of Todo has its record, whatever failed before it.
C4_PartialFailureIsolation ==
    InRun =>
        /\ Len(log) <= Len(Todo)
        /\ Len(results) = Len(loaded) + Len(log)
        /\ \A i \in 1..Len(log) :
             LET rec == results[Len(loaded) + i]
                 r == analyze_syllabus(ServiceOutcomes[log[i].outcome])
             IN  /\ log[i].file = Todo[i]
                 /\ rec["_source_file"] = JStr(Todo[i])
                 /\ calls[Todo[i]] = 1
                 /\ IF r.ok
                    THEN /\ DOMAIN rec = DOMAIN r.value \cup { "_source_file" }
                         /\ \A k \in DOMAIN r.value : rec[k] = r.value[k]
                    ELSE /\ DOMAIN rec = { "_source_file", "_error" }
                         /\ rec["_error"] = JStr(r.error)
        /\ LoopDone => Len(log) = Len(Todo)

\* C4 witness: a run over three files with no record has ended; the second
\* file failed validation, the first and the third have a rubric record.
C4_Witness ==
    /\ LoopDone /\ loaded = <<>> /\ Len(files) = 3 /\ Len(results) = 3
    /\ log[1].outcome = 3 /\ log[2].outcome = 4 /\ log[3].outcome = 3
    /\ ~IsError(results[1]) /\ IsError(results[2]) /\ ~IsError(results[3])
    /\ store[out] = FileOf(results)

\* C5: an error record counts as done and a failure is not retried.  In one
\* run no file is submitted to the service more than once, and a file with
\* a record in the loaded result file, rubric or error, is not submitted.
C5_NoRetry ==
    /\ \A n \in FileUniverse : calls[n] <= 1
    /\ InRun =>
         \A i \in 1..Len(loaded) :
             /\ calls[loaded[i]] = 0
             /\ \A j \in 1..Len(log) : log[j].file # loaded[i]
             /\ results[i]["_source_file"] = JStr(loaded[i])

\* C5 witness: a run has gone through its files; one of them had an error
\* record in the loaded file and was skipped, another one was submitted.
C5_Witness ==
    /\ LoopDone /\ Len(log) >= 1
    /\ \E i \in 1..Len(loaded) :
         /\ IsError(results[i]) /\ loaded[i] \in Range(files)
         /\ calls[loaded[i]] = 0

\* A rubric record as the store is to hold it: no _error, every criterion of
\* every section present with score 0 or 1, a decision of the three literals
IsRubricRecord(rec) ==
    /\ "_error" \notin DOMAIN rec
    /\ "_source_file" \in DOMAIN rec
    /\ \A p \in CriterionPaths : Get(JObj(rec), p \o <<"score">>) \in { JInt(x) : x \in Scores }
    /\ Get(JObj(rec), DecisionPath \o <<"decision">>) \in { JStr(d) : d \in Decisions }

\* An error record: {_source_file, _error}
IsErrorRecord(rec) == DOMAIN rec = { "_source_file", "_error" }

\* C7: store validity.  Every element of every result file is an error
\* record or a rubric record with all criteria scored 0 or 1 and a decision
\* of the three literals, and the record appended for a response with a
\* schema defect is an error record.
C7_StoreValid ==
    /\ \A d \in DeptKeys : \A i \in 1..Len(store[d].recs) :
         IsErrorRecord(store[d].recs[i]) \/ IsRubricRecord(store[d].recs[i])
    /\ InRun =>
         \A i \in 1..Len(log) :
             (ServiceOutcomes[log[i].outcome].kind = "json"
                 /\ Defective(ServiceOutcomes[log[i].outcome].raw))
             => IsErrorRecord(results[Len(loaded) + i])

\* C7 witness: a result file holds a rubric record and the error record of
\* a response that failed validation.
C7_Witness ==
    \E d \in DeptKeys :
        /\ store[d].exists /\ ~store[d].torn
        /\ \E i, j \in 1..Len(store[d].recs) :
             /\ IsRubricRecord(store[d].recs[i])
             /\ IsErrorRecord(store[d].recs[j])
             /\ store[d].recs[j]["_error"] = JStr("ValidationError")

\* C10: program-scoped discovery.  The files a program run selects are the
\* supported files whose leading segment, uppercased, is the normalized
\* identifier of a course of the program; and a course that
\* find_missing_syllabi counts as found has a file selected.
C10_ProgramDiscovery ==
    (scope.kind = "program" /\ pc # "idle") =>
        /\ Range(matching) =
             { n \in dir : Supported(n) /\ CourseCodeOf(n) \in CoursePrefixesPadded(scope.program) }
        /\ \A i \in 1..Len(Programs[scope.program]) :
             _normalize_course_code(Programs[scope.program][i]) \in SyllabiCodes(dir)
             => \E n \in Range(matching) :
                    CourseCodeOf(n) = _normalize_course_code(Programs[scope.program][i])

(***************************************************************************)
(* The missing-courses report (find_missing_syllabi)                       *)
(***************************************************************************)

MaxCourses == 3

\* The raw course identifiers a course list of programs.json is made of
RawCourses ==
    { <<"X","Y"," ","9","9","9">>, <<"A","B"," ","2","0","1">>,
      <<"A","B","2","0","1","0","0">>, <<"c","d"," ","1","0","1","0","0">> }

\* The course lists of at most MaxCourses identifiers
CourseLists == UNION { [ 1..k -> RawCourses ] : k \in 0..MaxCourses }

\* The program names find_missing_syllabi is called with: the one that
\* programs.json holds and one it does not hold
KnownProgram == "Honors"

AskedPrograms == { KnownProgram, "Other" }

\* A plausible slip: the identifiers are stripped and uppercased, not padded.
MissingUnpadded(courses, codes) ==
    LET keep == { i \in 1..Len(courses) : StripUpper(courses[i]) \notin codes }
        pick[k \in 0..Len(courses)] ==
            IF k = 0 THEN <<>>
            ELSE IF k \in keep THEN Append(pick[k - 1], courses[k]) ELSE pick[k - 1]
    IN  pick[Len(courses)]

\* missing = [c for c in courses if _normalize_course_code(c) not in syllabi_codes]
Missing(courses, codes) ==
    LET keep == { i \in 1..Len(courses) : _normalize_course_code(courses[i]) \notin codes }
        pick[k \in 0..Len(courses)] ==
            IF k = 0 THEN <<>>
            ELSE IF k \in keep THEN Append(pick[k - 1], courses[k]) ELSE pick[k - 1]
    IN  pick[Len(courses)]

\* list.sort() of a list of strings: ascending, equal elements kept
RECURSIVE SortStrings(_)
SortStrings(l) ==
    IF l = <<>> THEN <<>>
    ELSE LET i == CHOOSE j \in 1..Len(l) :
                      /\ \A k \in 1..Len(l) : ~StrLess(l[k], l[j])
                      /\ \A k \in 1..(j - 1) : l[k] # l[j]
         IN  <<l[i]>> \o SortStrings(SubSeq(l, 1, i - 1) \o SubSeq(l, i + 1, Len(l)))

\* No report file
NoReport == [ exists |-> FALSE ]

\* The report file: json.dumps(output)
ReportOf(name, courses, missing) ==
    [ exists |-> TRUE,
      program |-> name,
      total_courses |-> Len(courses),
      found |-> Len(courses) - Len(missing),
      missing_count |-> Len(missing),
      missing_courses |-> missing ]

\* The return value None
ReturnsNone == [ none |-> TRUE, missing |-> <<>> ]

ReturnsList(l) == [ none |-> FALSE, missing |-> l ]

\* Result files the report may find in RESULTS_DIR: none, a file with one
\* error record, a file cut short
SampleStores ==
    { NoStores,
      [ d \in DeptKeys |->
          IF d = <<"A","B">> THEN FileOf(<<ErrorRecord("AB20100_a.pdf", "APIError")>>) ELSE NoFile ],
      [ d \in DeptKeys |-> IF d = <<"C","D">> THEN TornFile ELSE NoFile ] }

\* A directory, result files and a programs.json; nothing is running
MissInit ==
    /\ dir \in { S \cup { "notes.txt" } : S \in { T \in SUBSET Syllabi : Cardinality(T) <= MaxFiles } }
    /\ store \in SampleStores
    /\ pc = "off" /\ scope = NoScope /\ ended = "none"
    /\ jobs = <<>> /\ out = NoDept /\ files = <<>> /\ idx = 0 /\ results = <<>> /\ done = {}
    /\ matching = <<>> /\ loaded = <<>> /\ log = <<>> /\ calls = NoCalls
    /\ resumed = FALSE /\ store0 = NoStores
    /\ mCourses \in CourseLists
    /\ mProgram = "" /\ report = NoReport /\ mOut = ReturnsNone /\ mPc = "in"
    /\ NormIdle /\ ValIdle /\ FenceIdle

\* find_missing_syllabi(p), p not in programs.json: return None
FindMissingUnknown(p) ==
    /\ mPc = "in" /\ p # KnownProgram
    /\ mProgram' = p
    /\ mOut' = ReturnsNone
    /\ mPc' = "reported"
    /\ UNCHANGED <<mCourses, report, normVars, valVars, orchVars, fenceVars>>

\* A plausible slip: the report is written into RESULTS_DIR, over a result
\* file, instead of data/missing.
FindMissingIntoResults(p) ==
    /\ mPc = "in" /\ p = KnownProgram
    /\ mProgram' = p
    /\ mOut' = ReturnsList(SortStrings(Missing(mCourses, SyllabiCodes(dir))))
    /\ store' = [ store EXCEPT ![<<"A","B">>] = FileOf(<<>>) ]
    /\ mPc' = "reported"
    /\ UNCHANGED <<mCourses, report, normVars, valVars, dir, runVars, fenceVars>>

\* find_missing_syllabi(p), p in programs.json: the report is written and
\* the sorted list returned
FindMissingKnown(p) ==
    /\ mPc = "in" /\ p = KnownProgram
    /\ mProgram' = p
    /\ LET missing == SortStrings(Missing(mCourses, SyllabiCodes(dir)))
       IN  /\ report' = ReportOf(p, mCourses, missing)
           /\ mOut' = ReturnsList(missing)
    /\ mPc' = "reported"
    /\ UNCHANGED <<mCourses, normVars, valVars, orchVars, fenceVars>>

MissNext ==
    \/ \E p \in AskedPrograms : FindMissingUnknown(p)
    \/ \E p \in AskedPrograms : FindMissingKnown(p)

SpecMissing == MissInit /\ [][MissNext]_vars

\* How many times c occurs in the list l
Count(l, c) == Cardinality({ i \in 1..Len(l) : l[i] = c })

\* C11: the missing-courses report.  For a known program, missing_courses
\* holds each raw identifier of the course list whose normalized form is
\* not the leading segment of a supported file, as often as the list holds
\* it, and no other; missing_count is its length, total_courses the length
\* of the course list, and found their difference.
C11_MissingReport ==
    (mPc = "reported" /\ mProgram = KnownProgram) =>
        LET discovered == { CourseCodeOf(n) : n \in { m \in dir : Supported(m) } } IN
        /\ report.exists
        /\ \A c \in RawCourses :
             Count(report.missing_courses, c) =
                 IF _normalize_course_code(c) \in discovered THEN 0 ELSE Count(mCourses, c)
        /\ report.missing_count = Len(report.missing_courses)
        /\ report.total_courses = Len(mCourses)
        /\ report.found = report.total_courses - report.missing_count
        /\ mOut = ReturnsList(report.missing_courses)

\* C11 witness: the course list is "AB 201", "XY 999", the directory holds a
\* file of AB20100, and the report lists "XY 999" alone: found 1, missing 1.
C11_Witness ==
    /\ mPc = "reported" /\ mProgram = KnownProgram
    /\ mCourses = << <<"A","B"," ","2","0","1">>, <<"X","Y"," ","9","9","9">> >>
    /\ "AB20100_a.pdf" \in dir
    /\ report.missing_courses = << <<"X","Y"," ","9","9","9">> >>
    /\ report.found = 1 /\ report.missing_count = 1

\* C17: the report is off the write path.  A call of find_missing_syllabi,
\* for a known or an unknown program, submits nothing to the service, leaves
\* the directory and every result file as they are, and writes at most its
\* own report file (none for an unknown program).
C17_OffWritePath ==
    [][ /\ calls' = calls /\ store' = store /\ dir' = dir
        /\ mProgram' # KnownProgram => report' = report ]_vars

\* C17 witness: the report of a known program has been written next to a
\* result file that holds a record.
C17_Witness ==
    /\ mPc = "reported" /\ mProgram = KnownProgram /\ report.exists
    /\ Len(store[<<"A","B">>].recs) = 1
    /\ \A n \in FileUniverse : calls[n] = 0

\* C12: the result store is append-only.  When _save_results is reached the
\* file holds the results without the record just appended; the rewrite,
\* once it has opened the file, leaves in it that sequence with the one
\* record added at the end; and no other step of a run changes a result
\* file.  So no record of a file is changed, removed or reordered and the
\* length of a file does not decrease.
C12_AppendOnly ==
    [][ /\ pc = "save" => store[out].recs = SubSeq(results, 1, Len(results) - 1)
        /\ pc = "write" => store'[out] = FileOf(results)
        /\ pc \in { "next", "loop", "raised" } => store' = store ]_vars

\* C13: program fan-out is complete.  When a program run has made all its
\* department runs, every file that discovery matched has a record in
\* exactly one result file.
C13_FanOutComplete ==
    (scope.kind = "program" /\ pc = "next" /\ jobs = <<>>) =>
        \A n \in Range(matching) :
            Cardinality({ d \in DeptKeys : n \in DoneKeys(store[d].recs) }) = 1

\* C14: processing is sequential in discovery order.  The files of a
\* department run are in ascending order of name and are submitted in that
\* order; whenever the loop is about to take a file, every record appended
\* so far is in the result file; and while a record is being persisted it is
\* the only one not yet in the file, the record of the file the loop is at.
C14_Sequential ==
    InRun =>
        /\ \A i, j \in 1..Len(files) : i < j => StrLess(Chars(files[i]), Chars(files[j]))
        /\ \A i, j \in 1..Len(log) :
             i < j => StrLess(Chars(log[i].file), Chars(log[j].file))
        /\ (pc = "loop" /\ log # <<>>) =>
             /\ store[out] = FileOf(results)
             /\ \A i \in 1..Len(log) : \E k \in 1..(idx - 1) : files[k] = log[i].file
        /\ pc \in { "save", "write" } =>
             /\ log[Len(log)].file = files[idx]
             /\ results[Len(results)]["_source_file"] = JStr(files[idx])
             /\ pc = "save" => store[out].recs = SubSeq(results, 1, Len(results) - 1)

\* C14 witness: three files were submitted one after the other and the
\* third record is being persisted after the first two.
C14_Witness ==
    /\ pc = "save" /\ Len(log) = 3 /\ idx = 3
    /\ Len(store[out].recs) = 2

\* C15: a store I/O failure is not isolated per item.  A failure to load or
\* to persist ends the run at once: the step that ends a run as failed
\* writes no result file, so no record stands for the failure, and drops
\* the files and the department runs still to come.  The item loop goes on
\* from a persist step only when the step has written the results, which
\* then hold what they held.
C15_StoreFailureEndsRun ==
    [][ /\ (pc \in { "next", "save", "write", "raised" } /\ ended' = "failed") =>
             /\ pc' = "idle" /\ jobs' = <<>> /\ files' = <<>>
             /\ store' = store
        /\ (pc \in { "save", "write" } /\ pc' = "loop") =>
             /\ pc = "write" /\ results' = results
             /\ store'[out] = FileOf(results) ]_vars

\* C15 witness: a run over the files of one department has failed after the
\* record of the first of several files was persisted; the later files have
\* no record.
C15_Witness ==
    /\ pc = "idle" /\ ended = "failed"
    /\ \E d \in DeptKeys :
         /\ \A n \in dir : Supported(n) => DeptOf(n) = d
         /\ Len(DepartmentFiles(d, dir)) >= 2
         /\ store[d] = FileOf(store[d].recs)
         /\ Sources(store[d].recs) = << DepartmentFiles(d, dir)[1] >>


\* C18: uniqueness.  No result file holds two records with the same
\* _source_file, and neither does the list a run is building.
C18_UniqueSources ==
    /\ \A d \in DeptKeys : \A i, j \in 1..Len(store[d].recs) :
           i # j => SourceOf(store[d].recs[i]) # SourceOf(store[d].recs[j])
    /\ \A i, j \in 1..Len(results) : i # j => SourceOf(results[i]) # SourceOf(results[j])

\* C18 witness: a run over a result file that an earlier run left with two
\* records has skipped their files, submitted a third file and persisted
\* its record.
C18_Witness ==
    /\ LoopDone /\ Len(loaded) = 2 /\ Len(log) = 1
    /\ Range(loaded) \subseteq Range(files)
    /\ store[out] = FileOf(results) /\ Len(results) = 3

\* C19: scope key.  Every record of the result file of department D, and
\* every record of the list a run for D is building, has a _source_file
\* whose department is D.
C19_ScopeKey ==
    /\ \A d \in DeptKeys : \A i \in 1..Len(store[d].recs) :
           DeptOf(SourceOf(store[d].recs[i])) = d
    /\ InRun => \A i \in 1..Len(results) : DeptOf(SourceOf(results[i])) = out

\* C19 witness: a program run has made its department runs and has left
\* records in the result files of two departments.
C19_Witness ==
    /\ scope.kind = "program" /\ pc = "next" /\ jobs = <<>>
    /\ \A d \in DeptKeys : store[d].exists /\ Len(store[d].recs) >= 1
    /\ \E d \in DeptKeys : Len(store[d].recs) >= 2

\* C20: the resume state is shared across the kinds of scope.  Whatever the
\* scope of the operation, a department run works on the files of one
\* department and on the result file of that department: every record of
\* that file that this run did not append is in done, the files with such a
\* record are not submitted, and the records this run has persisted are in
\* that same file.
C20_SharedResume ==
    InRun =>
        /\ \A n \in Range(files) : DeptOf(n) = out
        /\ Range(Sources(store[out].recs)) \subseteq done \cup { log[i].file : i \in 1..Len(log) }
        /\ \A n \in Range(files) \cap Range(loaded) : calls[n] = 0
        /\ pc = "loop" =>
             \A i \in 1..Len(log) : log[i].file \in Range(Sources(store[DeptOf(log[i].file)].recs))

\* C20 witness: a department run has gone through its files; the result
\* file it loaded held the record of AB201_a.PDF alone, which only a program
\* run can have left (a department run takes AB20100_a.pdf first), and the
\* run has submitted AB20100_a.pdf and not AB201_a.PDF.
C20_Witness ==
    /\ scope.kind \in { "department", "all" } /\ LoopDone
    /\ loaded = << "AB201_a.PDF" >>
    /\ calls["AB201_a.PDF"] = 0 /\ calls["AB20100_a.pdf"] = 1
    /\ Sources(store[out].recs) = << "AB201_a.PDF", "AB20100_a.pdf" >>

(***************************************************************************)
(* The reply of the service as text (analyze_syllabus, lines 100 to 107)   *)
(***************************************************************************)

\* A text is a sequence of symbols: a backtick (written "tick"), a line break, a space, the
\* language tag of a fence, the braces and the quote of JSON, and two
\* symbols that stand for runs of characters without backtick, quote or
\* white space: the members of a conforming review and the members of a
\* review with a score of 2.
Whitespace == { " ", "\n" }

Fence == <<"tick", "tick", "tick">>

\* str.strip(): leading and trailing white space is removed
RECURSIVE LStrip(_)
LStrip(t) == IF t # <<>> /\ Head(t) \in Whitespace THEN LStrip(Tail(t)) ELSE t

RECURSIVE RStrip(_)
RStrip(t) ==
    IF t # <<>> /\ t[Len(t)] \in Whitespace THEN RStrip(SubSeq(t, 1, Len(t) - 1)) ELSE t

Strip(t) == LStrip(RStrip(t))

\* text.startswith(fence)
StartsWithFence(t) == Len(t) >= 3 /\ SubSeq(t, 1, 3) = Fence

\* the positions at which a fence starts in t
FenceStarts(t) == { i \in 1..(Len(t) - 2) : SubSeq(t, i, i + 2) = Fence }

\* text.split("\n", 1): the parts around the first line break, one part
\* when there is none
SplitFirstLine(t) ==
    IF "\n" \in Range(t)
    THEN LET i == CHOOSE k \in 1..Len(t) :
                      t[k] = "\n" /\ \A j \in 1..(k - 1) : t[j] # "\n"
         IN  << SubSeq(t, 1, i - 1), SubSeq(t, i + 1, Len(t)) >>
    ELSE << t >>

\* text.rsplit(fence, 1)[0]: the text before the last fence, the whole text
\* when there is none
BeforeLastFence(t) ==
    IF FenceStarts(t) = {} THEN t
    ELSE LET i == CHOOSE k \in FenceStarts(t) : \A j \in FenceStarts(t) : j <= k
         IN  SubSeq(t, 1, i - 1)

\* the members of an object: the run of a review, optionally followed by a
\* member "notes" with a string value; white space between tokens is
\* insignificant, a string holds no quote and no line break
Members(t) ==
    LET q == { i \in 1..Len(t) : t[i] = "\"" }
        first == CHOOSE i \in q : \A j \in q : i <= j
        run == IF q = {} THEN Strip(t) ELSE Strip(SubSeq(t, 1, first - 1))
        review == IF run = <<"members">> THEN Conforming(1, "approved")
                  ELSE Edit(Conforming(0, "deferred"),
                            <<"course_analysis", "rigor", "advanced_content", "score">>,
                            JInt(2))
        content == SubSeq(t, first + 1, Len(t) - 1)
    IN  IF run \notin { <<"members">>, <<"invalid">> } THEN [ ok |-> FALSE ]
        ELSE IF q = {} THEN [ ok |-> TRUE, value |-> review ]
        ELSE IF /\ Len(t) > first /\ t[Len(t)] = "\""
                /\ "\"" \notin Range(content) /\ "\n" \notin Range(content)
             THEN [ ok |-> TRUE, value |-> Edit(review, <<"notes">>, JStr(content)) ]
             ELSE [ ok |-> FALSE ]

\* json.loads(text): the value of the document, or no value (JSONDecodeError)
json_loads(t) ==
    LET s == Strip(t)
    IN  IF Len(s) >= 2 /\ s[1] = "{" /\ s[Len(s)] = "}"
        THEN Members(Strip(SubSeq(s, 2, Len(s) - 1)))
        ELSE [ ok |-> FALSE ]

\* lines 100 to 107 of analyze_syllabus: the reply is stripped, a leading
\* fence line and the last fence are cut off, the rest is parsed and
\* validated; the result is the review or the exception raised
Reply(reply) ==
    LET text == Strip(reply)
        parts == SplitFirstLine(text)
        cut == IF StartsWithFence(text) THEN BeforeLastFence(parts[2]) ELSE text
        raw == json_loads(cut)
    IN  IF StartsWithFence(text) /\ Len(parts) < 2
        THEN [ ok |-> FALSE, error |-> "IndexError" ]
        ELSE IF raw.ok THEN model_validate(raw.value)
        ELSE [ ok |-> FALSE, error |-> "JSONDecodeError" ]

\* Bodies: a review on one line, a review over several lines, a review with
\* a string that holds a fence, a review that is not valid, a text that is
\* not JSON.
Bodies ==
    { <<"{", "members", "}">>,
      <<"{", "\n", " ", "members", "\n", "}">>,
      <<"{", "members", " ", "\"", "tick", "tick", "tick", "\"", "}">>,
      <<"{", "invalid", "}">>,
      <<"{", "members">> }

\* a body between an opening fence, with or without the language tag and a
\* line break, and a closing fence, with or without a line break before
\* it, with or without white space around the whole
Wrappings(b) ==
    { lead \o Fence \o tag \o nl1 \o b \o nl2 \o Fence \o trail :
        lead \in { <<>>, <<" ">>, <<"\n">> }, tag \in { <<>>, <<"json">> },
        nl1 \in { <<>>, <<"\n">> }, nl2 \in { <<>>, <<"\n">> },
        trail \in { <<>>, <<"\n">> } }

FenceInit ==
    /\ fBody \in Bodies
    /\ fText \in Wrappings(fBody)
    /\ fPlain = JNull /\ fOut = JNull
    /\ fPc = "in"
    /\ NormIdle /\ ValIdle /\ OrchIdle /\ MissIdle

\* the service returns the body alone
ReplyPlain ==
    /\ fPc = "in"
    /\ fPlain' = Reply(fBody)
    /\ fPc' = "plain"
    /\ UNCHANGED <<fBody, fText, fOut, normVars, valVars, orchVars, missVars>>

\* the service returns the body in a fenced code block
ReplyFenced ==
    /\ fPc = "plain"
    /\ fOut' = Reply(fText)
    /\ fPc' = "fenced"
    /\ UNCHANGED <<fBody, fText, fPlain, normVars, valVars, orchVars, missVars>>

FenceNext == ReplyPlain \/ ReplyFenced

SpecFence == FenceInit /\ [][FenceNext]_vars

\* the opening fence of the reply is followed by a line break, after the
\* language tag if there is one
OpensWithLine(t) ==
    LET s == Strip(t)
    IN  \/ Len(s) >= 4 /\ s[4] = "\n"
        \/ Len(s) >= 5 /\ s[4] = "json" /\ s[5] = "\n"

\* C16: fence tolerance.  For every body that parses and validates, the
\* reply that wraps the body in a fenced code block, with or without line
\* breaks between fence and body, yields the same review as the body alone.
C16_FenceTolerance ==
    (fPc = "fenced" /\ fPlain.ok) => fOut = fPlain

\* the same for the replies whose opening fence ends its line
FenceLineTolerance ==
    (fPc = "fenced" /\ fPlain.ok /\ OpensWithLine(fText)) => fOut = fPlain


=============================================================================
